---- MODULE Spec2Model ----
(***************************************************************************)
(* Model of the dynamic pin-state matrix of inc/gpio_std.c:                *)
(* PINS_createInstance, PINS_destroyInstance and the caller in main.       *)
(*                                                                         *)
(* The heap is a map from block identities to blocks.  A block is a kind   *)
(* and a sequence of slots.  malloc returns storage with indeterminate     *)
(* contents: a slot nobody wrote holds UNINIT, and the first read of it    *)
(* picks any value the storage may hold and keeps it.  An access through   *)
(* a pointer that is not a live block of the expected kind is undefined    *)
(* behaviour: the event is recorded in ub, and the run either stops        *)
(* (pc = "fault") or goes on: a read through such a pointer yields NULL or *)
(* some non-null value (WILD), a store or a free through it changes        *)
(* nothing the model tracks.                                               *)
(***************************************************************************)
EXTENDS Integers, Sequences, FiniteSets, TLC

\* ---- bounds of the model ----
MaxPins == 2
MaxWrites == 2
MaxExtraCalls == 1
MaxAttempts == 2

\* ---- program constants ----
SUCCESS == 0
EINVAL == 22
MAX_PORTS == 4
MAX_FUNC == 3
GPIO_OFF == 0
GPIO_ON == 1

\* ---- pointer values ----
NULL == 0
WILD == -1
UNINIT == -2

\* slots of the header block: pins_t { size_t num_of_pins; int ***pins; }
F_NUM == 1
F_PINS == 2

VARIABLES
    pc,           \* position of the program
    mem,          \* heap: live block id -> [kind, slots]
    freed,        \* ids of the blocks released so far
    freeLog,      \* the successful and the repeated frees, in order
    nextId,       \* identity of the next block malloc hands out
    ub,           \* undefined-behaviour events that happened
    req,          \* num_of_pins argument of PINS_createInstance
    failKind,     \* which malloc of the create call failed ("none" if none)
    my_pins,      \* main: my_pins
    destroy_ret,  \* main: destroy_ret
    pins_matrix,  \* create: pins_matrix
    c_pin,        \* create: loop variable pin (the port index)
    c_func,       \* create: loop variable func (the pin index)
    instance,     \* destroy: parameter instance
    d_port,       \* destroy: loop variable port
    d_pin,        \* destroy: loop variable pin
    ret,          \* destroy: ret
    retTo,        \* who called destroy: "create", "main" or "caller"
    calls,        \* number of destroy calls made by the caller on my_pins
    writes,       \* history: number of cell writes made on the live instance
    lastW,        \* history: the last cell write, << port, pin, func, value >>
    extra,        \* number of calls made after main's loop
    arg,          \* the argument of the last call of destroy
    oor,          \* history: a cell access with pin >= num_of_pins was made
    attempt,      \* number of the current call of PINS_createInstance
    base,         \* history: nextId when the current create call began
    \* --- GPIOS_EXAMPLES/OddOrEvenOnLed ---
    kpc,              \* position in the example's main loop or in checkKeyConditions
    odr,              \* GPIOC->ODR
    user_input,       \* main's local
    condition_check,  \* main's local
    binary_number,    \* checkKeyConditions' parameter
    counter,          \* checkKeyConditions' local
    k_ret,            \* checkKeyConditions' local ret
    k_arg,            \* history: the argument of the current call
    direct            \* history: the current call was not made by the main loop

vars == << pc, mem, freed, freeLog, nextId, ub, req, failKind, my_pins,
           destroy_ret, pins_matrix, c_pin, c_func, instance, d_port, d_pin,
           ret, retTo, calls, writes, lastW, extra, arg, oor, attempt, base,
          kpc, odr, user_input, condition_check, binary_number, counter,
          k_ret, k_arg, direct >>

keyVars == << kpc, odr, user_input, condition_check, binary_number, counter,
              k_ret, k_arg, direct >>

heapVars == << mem, freed, freeLog, nextId >>
mainVars == << my_pins, destroy_ret, calls, writes, lastW, extra, arg >>
createVars == << pins_matrix, c_pin, c_func >>
destroyVars == << instance, d_port, d_pin, ret, retTo >>
callerVars == << oor, attempt, base >>

\* ---------------------------------------------------------------------
\* The allocator
\* ---------------------------------------------------------------------

Uninit(n) == [i \in 1..n |-> UNINIT]

\* the heap after malloc returned a new block of n slots
Malloc(m, id, kind, n) ==
    [b \in (DOMAIN m) \cup {id} |->
        IF b = id THEN [kind |-> kind, slots |-> Uninit(n)] ELSE m[b]]

\* the heap after free(p) of a live block p
Release(m, p) == [b \in (DOMAIN m) \ {p} |-> m[b]]

\* the heap after a store of v into slot i of block p
Store(m, p, i, v) == [m EXCEPT ![p].slots[i] = v]

\* what the event of a bad access through p is called; a live block that is
\* not of the kind the access expects, or is shorter, is read as something
\* it is not
BadAccess(p) ==
    IF p = NULL THEN "null_deref"
    ELSE IF p \in freed THEN "use_after_free"
    ELSE IF p \in DOMAIN mem THEN "wrong_object"
    ELSE "wild_deref"

\* the values a read through an invalid pointer may yield, for a slot of
\* kind k, index i: an int cell, num_of_pins, or a pointer
Arbitrary(k, i) ==
    IF k = "func" THEN {GPIO_OFF, GPIO_ON, WILD}
    ELSE IF k = "hdr" /\ i = F_NUM THEN 0..MaxPins
    ELSE {NULL, WILD}

\* the values an indeterminate slot of a live block may turn out to hold:
\* as above, and for a pointer the address of any live block
Garbage(m, k, i) ==
    IF k \in {"ports", "pinarr"} \/ (k = "hdr" /\ i = F_PINS)
    THEN Arbitrary(k, i) \cup DOMAIN m
    ELSE Arbitrary(k, i)

IsLive(m, p, k, i) ==
    /\ p \in DOMAIN m
    /\ m[p].kind = k
    /\ i \in 1..Len(m[p].slots)

\* a read of slot i of the block p points to, p expected to be of kind k:
\* the set of outcomes [v: value read, m: heap afterwards, ev: events]
Load(m, p, k, i) ==
    IF IsLive(m, p, k, i)
    THEN IF m[p].slots[i] = UNINIT
         THEN {[v |-> g, m |-> Store(m, p, i, g), ev |-> {"uninit_read"}] :
                  g \in Garbage(m, k, i)}
         ELSE {[v |-> m[p].slots[i], m |-> m, ev |-> {}]}
    ELSE {[v |-> g, m |-> m, ev |-> {BadAccess(p)}] : g \in Arbitrary(k, i)}

\* events after which the run may stop
Fatal == {"null_deref", "use_after_free", "wild_deref", "wrong_object",
          "double_free", "invalid_free"}


\* free(p): the set of outcomes [m, fr: freed, log: freeLog, ev]
FreeOut(m, fr, log, p) ==
    IF p = NULL
    THEN {[m |-> m, fr |-> fr, log |-> log, ev |-> {}]}
    ELSE IF p \in DOMAIN m
    THEN {[m |-> Release(m, p), fr |-> fr \cup {p}, log |-> Append(log, p), ev |-> {}]}
    ELSE IF p \in fr
    THEN {[m |-> m, fr |-> fr, log |-> Append(log, p), ev |-> {"double_free"}]}
    ELSE {[m |-> m, fr |-> fr, log |-> log, ev |-> {"invalid_free"}]}

\* *p[i] = v through a pointer p expected to be of kind k: [m, ev]
StoreOut(m, p, k, i, v) ==
    IF IsLive(m, p, k, i)
    THEN [m |-> Store(m, p, i, v), ev |-> {}]
    ELSE [m |-> m, ev |-> {BadAccess(p)}]

\* ---------------------------------------------------------------------
\* Initial state: main is about to call PINS_createInstance(req)
\* ---------------------------------------------------------------------

\* the OddOrEvenOnLed example is a separate program: not running
KeyIdle ==
    /\ kpc = "off"
    /\ odr = 0
    /\ user_input = 0
    /\ condition_check = 0
    /\ binary_number = 0
    /\ counter = 0
    /\ k_ret = 0
    /\ k_arg = 0
    /\ direct = FALSE

Init ==
    /\ pc = "main_start"
    /\ mem = << >>
    /\ freed = {}
    /\ freeLog = << >>
    /\ nextId = 1
    /\ ub = {}
    /\ req \in 0..MaxPins
    /\ failKind = "none"
    /\ my_pins = NULL
    /\ destroy_ret = 0
    /\ pins_matrix = NULL
    /\ c_pin = 0
    /\ c_func = 0
    /\ instance = NULL
    /\ d_port = 0
    /\ d_pin = 0
    /\ ret = SUCCESS
    /\ retTo = "none"
    /\ calls = 0
    /\ writes = 0
    /\ lastW = << >>
    /\ extra = 0
    /\ arg = NULL
    /\ oor = FALSE
    /\ attempt = 1
    /\ base = 1
    /\ KeyIdle

\* ---------------------------------------------------------------------
\* PINS_createInstance
\* ---------------------------------------------------------------------

\* malloc may return NULL in the first create call of a run; a later call
\* is the retry in which no allocation fails
MayFail == attempt = 1

\* main line 44: the call; create's locals are initialised (lines 64-67)
Main_CallCreate ==
    /\ pc = "main_start"
    /\ pc' = "c_hdr"
    /\ pins_matrix' = NULL
    /\ c_pin' = 0
    /\ c_func' = 0
    /\ failKind' = "none"
    /\ UNCHANGED << heapVars, ub, req, callerVars, keyVars, mainVars, destroyVars >>

\* lines 69-73: malloc of the header fails
C_HdrFail ==
    /\ pc = "c_hdr"
    /\ MayFail
    /\ pins_matrix' = NULL
    /\ failKind' = "hdr"
    /\ pc' = "c_out"
    /\ UNCHANGED << heapVars, ub, req, callerVars, keyVars, mainVars, c_pin, c_func, destroyVars >>

\* lines 69-75: malloc of the header succeeds; num_of_pins is stored
C_HdrOk ==
    /\ pc = "c_hdr"
    /\ pins_matrix' = nextId
    /\ mem' = Store(Malloc(mem, nextId, "hdr", 2), nextId, F_NUM, req)
    /\ nextId' = nextId + 1
    /\ pc' = "c_ports"
    /\ UNCHANGED << freed, freeLog, ub, req, callerVars, keyVars, failKind, mainVars, c_pin, c_func, destroyVars >>

\* lines 77-84: malloc of the port level fails; the header is freed
C_PortsFail ==
    /\ pc = "c_ports"
    /\ MayFail
    /\ mem' = Release(mem, pins_matrix)
    /\ freed' = freed \cup {pins_matrix}
    /\ freeLog' = Append(freeLog, pins_matrix)
    /\ pins_matrix' = NULL
    /\ failKind' = "ports"
    /\ pc' = "c_out"
    /\ UNCHANGED << nextId, ub, req, callerVars, keyVars, mainVars, c_pin, c_func, destroyVars >>

\* lines 77-78, 86: malloc of the port level succeeds; pin = 0
C_PortsOk ==
    /\ pc = "c_ports"
    /\ mem' = Store(Malloc(mem, nextId, "ports", MAX_PORTS), pins_matrix, F_PINS, nextId)
    /\ nextId' = nextId + 1
    /\ c_pin' = 0
    /\ pc' = "c_portloop"
    /\ UNCHANGED << freed, freeLog, ub, req, callerVars, keyVars, failKind, mainVars, pins_matrix, c_func, destroyVars >>

\* the call PINS_destroyInstance(pins_matrix) of lines 91 and 102
CallDestroyFromCreate ==
    /\ instance' = pins_matrix
    /\ arg' = pins_matrix
    /\ retTo' = "create"
    /\ ret' = SUCCESS
    /\ d_port' = 0
    /\ d_pin' = 0
    /\ pc' = "d_entry"

\* lines 86-95: malloc of pins[pin] returns NULL; rollback through destroy.
\* malloc(0) may return NULL without any failure.
C_PinLevelFail ==
    /\ pc = "c_portloop"
    /\ c_pin < MAX_PORTS
    /\ MayFail
    /\ mem' = Store(mem, mem[pins_matrix].slots[F_PINS], c_pin + 1, NULL)
    /\ failKind' = IF mem[pins_matrix].slots[F_NUM] = 0 THEN "zero" ELSE "pin"
    /\ CallDestroyFromCreate
    /\ UNCHANGED << freed, freeLog, nextId, ub, req, callerVars, keyVars, my_pins, destroy_ret, calls,
                    writes, lastW, extra, createVars >>

\* lines 86-89, 97: malloc of pins[pin] succeeds; func = 0
C_PinLevelOk ==
    /\ pc = "c_portloop"
    /\ c_pin < MAX_PORTS
    /\ mem' = Store(Malloc(mem, nextId, "pinarr", mem[pins_matrix].slots[F_NUM]),
                    mem[pins_matrix].slots[F_PINS], c_pin + 1, nextId)
    /\ nextId' = nextId + 1
    /\ c_func' = 0
    /\ pc' = "c_funcloop"
    /\ UNCHANGED << freed, freeLog, ub, req, callerVars, keyVars, failKind, mainVars, pins_matrix, c_pin, destroyVars >>

\* line 86: the port loop ends
C_PortLoopEnd ==
    /\ pc = "c_portloop"
    /\ ~(c_pin < MAX_PORTS)
    /\ pc' = "c_out"
    /\ UNCHANGED << heapVars, ub, req, callerVars, keyVars, failKind, mainVars, createVars, destroyVars >>

\* lines 97-106: malloc of pins[pin][func] fails; rollback through destroy
C_FuncLevelFail ==
    /\ pc = "c_funcloop"
    /\ c_func < mem[pins_matrix].slots[F_NUM]
    /\ MayFail
    /\ mem' = Store(mem, mem[mem[pins_matrix].slots[F_PINS]].slots[c_pin + 1], c_func + 1, NULL)
    /\ failKind' = "func"
    /\ CallDestroyFromCreate
    /\ UNCHANGED << freed, freeLog, nextId, ub, req, callerVars, keyVars, my_pins, destroy_ret, calls,
                    writes, lastW, extra, createVars >>

\* lines 97-100: malloc of pins[pin][func] succeeds; func++
C_FuncLevelOk ==
    /\ pc = "c_funcloop"
    /\ c_func < mem[pins_matrix].slots[F_NUM]
    /\ mem' = Store(Malloc(mem, nextId, "func", MAX_FUNC),
                    mem[mem[pins_matrix].slots[F_PINS]].slots[c_pin + 1], c_func + 1, nextId)
    /\ nextId' = nextId + 1
    /\ c_func' = c_func + 1
    /\ UNCHANGED << pc, freed, freeLog, ub, req, callerVars, keyVars, failKind, mainVars, pins_matrix, c_pin, destroyVars >>

\* lines 97, 86: the pin loop of a port ends; pin++
C_FuncLoopEnd ==
    /\ pc = "c_funcloop"
    /\ ~(c_func < mem[pins_matrix].slots[F_NUM])
    /\ c_pin' = c_pin + 1
    /\ pc' = "c_portloop"
    /\ UNCHANGED << heapVars, ub, req, callerVars, keyVars, failKind, mainVars, pins_matrix, c_func, destroyVars >>

\* C_Rollback without line 92/103: the handle is returned after the rollback
C_RollbackKeepsHandle ==
    /\ pc = "c_rollback"
    /\ pc' = "c_out"
    /\ UNCHANGED << heapVars, ub, req, callerVars, keyVars, failKind, mainVars, createVars, destroyVars >>

\* lines 92-94 and 103-105: destroy has returned; pins_matrix = NULL
C_Rollback ==
    /\ pc = "c_rollback"
    /\ pins_matrix' = NULL
    /\ pc' = "c_out"
    /\ UNCHANGED << heapVars, ub, req, callerVars, keyVars, failKind, mainVars, c_pin, c_func, destroyVars >>

\* lines 110-111 and 44: return pins_matrix; my_pins = the value returned.
\* The first call returns to main, a retry to the caller that made it.
C_Out ==
    /\ pc = "c_out"
    /\ my_pins' = pins_matrix
    /\ pc' = IF attempt = 1 THEN "main_check" ELSE "main_end"
    /\ UNCHANGED << heapVars, ub, req, callerVars, keyVars, failKind, destroy_ret, calls, writes,
                    lastW, extra, arg, createVars, destroyVars >>

\* ---------------------------------------------------------------------
\* PINS_destroyInstance
\* ---------------------------------------------------------------------

\* a destroy that reports an error once its parameter has been cleared
DestroyResultAfterFree(r) == IF instance = NULL THEN -EINVAL ELSE SUCCESS

\* the value of line 153's return statement
DestroyResult(r) == SUCCESS

\* lines 117-123: instance == NULL: ret = -EINVAL; goto function_output
D_EntryNull ==
    /\ pc = "d_entry"
    /\ instance = NULL
    /\ ret' = -EINVAL
    /\ pc' = "d_out"
    /\ UNCHANGED << heapVars, ub, req, callerVars, keyVars, failKind, mainVars, createVars,
                    instance, d_port, d_pin, retTo >>

\* lines 119, 125, 127: instance != NULL; read instance->pins; port = 0
D_ChkPins ==
    /\ pc = "d_entry"
    /\ instance # NULL
    /\ \E a \in Load(mem, instance, "hdr", F_PINS) :
          /\ mem' = a.m
          /\ ub' = ub \cup a.ev
          /\ pc' = IF a.v # NULL THEN "d_portloop" ELSE "d_freehdr"
    /\ d_port' = 0
    /\ UNCHANGED << freed, freeLog, nextId, req, callerVars, keyVars, failKind, mainVars, createVars,
                    instance, d_pin, ret, retTo >>

\* a port loop that releases a port's pin-level block without its pin loop
D_PortLoopSkipsPins ==
    /\ pc = "d_portloop"
    /\ d_port < MAX_PORTS
    /\ pc' = "d_freepin"
    /\ UNCHANGED << heapVars, ub, req, callerVars, keyVars, failKind, mainVars, createVars,
                    destroyVars >>

\* lines 127-131: port < MAX_PORTS; read instance->pins[port]; pin = 0
D_PortLoop ==
    /\ pc = "d_portloop"
    /\ d_port < MAX_PORTS
    /\ \E a \in Load(mem, instance, "hdr", F_PINS) :
       \E b \in Load(a.m, a.v, "ports", d_port + 1) :
          /\ mem' = b.m
          /\ ub' = ub \cup a.ev \cup b.ev
          /\ IF b.v # NULL
             THEN /\ d_pin' = 0
                  /\ pc' = "d_pinloop"
                  /\ d_port' = d_port
             ELSE /\ d_port' = d_port + 1
                  /\ UNCHANGED << pc, d_pin >>
    /\ UNCHANGED << freed, freeLog, nextId, req, callerVars, keyVars, failKind, mainVars, createVars,
                    instance, ret, retTo >>

\* line 127: the port loop ends
D_PortLoopEnd ==
    /\ pc = "d_portloop"
    /\ ~(d_port < MAX_PORTS)
    /\ pc' = "d_freeports"
    /\ UNCHANGED << heapVars, ub, req, callerVars, keyVars, failKind, mainVars, createVars, destroyVars >>

\* lines 131-135: pin < instance->num_of_pins; read instance->pins[port][pin];
\* free it when it is not NULL
D_PinLoop ==
    /\ pc = "d_pinloop"
    /\ \E n \in Load(mem, instance, "hdr", F_NUM) :
          IF d_pin < n.v
          THEN \E a \in Load(n.m, instance, "hdr", F_PINS) :
               \E b \in Load(a.m, a.v, "ports", d_port + 1) :
               \E c \in Load(b.m, b.v, "pinarr", d_pin + 1) :
                  IF c.v # NULL
                  THEN \E f \in FreeOut(c.m, freed, freeLog, c.v) :
                          /\ mem' = f.m
                          /\ freed' = f.fr
                          /\ freeLog' = f.log
                          /\ ub' = ub \cup n.ev \cup a.ev \cup b.ev \cup c.ev \cup f.ev
                          /\ pc' = "d_pinnull"
                          /\ d_pin' = d_pin
                  ELSE /\ mem' = c.m
                       /\ ub' = ub \cup n.ev \cup a.ev \cup b.ev \cup c.ev
                       /\ d_pin' = d_pin + 1
                       /\ UNCHANGED << pc, freed, freeLog >>
          ELSE /\ mem' = n.m
               /\ ub' = ub \cup n.ev
               /\ pc' = "d_freepin"
               /\ UNCHANGED << freed, freeLog, d_pin >>
    /\ UNCHANGED << nextId, req, callerVars, keyVars, failKind, mainVars, createVars,
                    instance, d_port, ret, retTo >>

\* line 136 and the loop's pin++: instance->pins[port][pin] = NULL
D_PinNull ==
    /\ pc = "d_pinnull"
    /\ \E a \in Load(mem, instance, "hdr", F_PINS) :
       \E b \in Load(a.m, a.v, "ports", d_port + 1) :
          LET s == StoreOut(b.m, b.v, "pinarr", d_pin + 1, NULL)
          IN /\ mem' = s.m
             /\ ub' = ub \cup a.ev \cup b.ev \cup s.ev
    /\ d_pin' = d_pin + 1
    /\ pc' = "d_pinloop"
    /\ UNCHANGED << freed, freeLog, nextId, req, callerVars, keyVars, failKind, mainVars, createVars,
                    instance, d_port, ret, retTo >>

\* D_FreePin without the free of line 140
D_FreePinSkipped ==
    /\ pc = "d_freepin"
    /\ pc' = "d_portnull"
    /\ UNCHANGED << heapVars, ub, req, callerVars, keyVars, failKind, mainVars, createVars, destroyVars >>

\* line 140: free(instance->pins[port])
D_FreePin ==
    /\ pc = "d_freepin"
    /\ \E a \in Load(mem, instance, "hdr", F_PINS) :
       \E b \in Load(a.m, a.v, "ports", d_port + 1) :
       \E f \in FreeOut(b.m, freed, freeLog, b.v) :
          /\ mem' = f.m
          /\ freed' = f.fr
          /\ freeLog' = f.log
          /\ ub' = ub \cup a.ev \cup b.ev \cup f.ev
    /\ pc' = "d_portnull"
    /\ UNCHANGED << nextId, req, callerVars, keyVars, failKind, mainVars, createVars, destroyVars >>

\* line 141 and the loop's port++: instance->pins[port] = NULL
D_PortNull ==
    /\ pc = "d_portnull"
    /\ \E a \in Load(mem, instance, "hdr", F_PINS) :
          LET s == StoreOut(a.m, a.v, "ports", d_port + 1, NULL)
          IN /\ mem' = s.m
             /\ ub' = ub \cup a.ev \cup s.ev
    /\ d_port' = d_port + 1
    /\ pc' = "d_portloop"
    /\ UNCHANGED << freed, freeLog, nextId, req, callerVars, keyVars, failKind, mainVars, createVars,
                    instance, d_pin, ret, retTo >>

\* line 145: free(instance->pins)
D_FreePorts ==
    /\ pc = "d_freeports"
    /\ \E a \in Load(mem, instance, "hdr", F_PINS) :
       \E f \in FreeOut(a.m, freed, freeLog, a.v) :
          /\ mem' = f.m
          /\ freed' = f.fr
          /\ freeLog' = f.log
          /\ ub' = ub \cup a.ev \cup f.ev
    /\ pc' = "d_pinsnull"
    /\ UNCHANGED << nextId, req, callerVars, keyVars, failKind, mainVars, createVars, destroyVars >>

\* a destroy that clears num_of_pins instead of pins
D_PinsNullWrongField ==
    /\ pc = "d_pinsnull"
    /\ LET s == StoreOut(mem, instance, "hdr", F_NUM, NULL)
       IN /\ mem' = s.m
          /\ ub' = ub \cup s.ev
    /\ pc' = "d_freehdr"
    /\ UNCHANGED << freed, freeLog, nextId, req, callerVars, keyVars, failKind, mainVars, createVars, destroyVars >>

\* line 146: instance->pins = NULL
D_PinsNull ==
    /\ pc = "d_pinsnull"
    /\ LET s == StoreOut(mem, instance, "hdr", F_PINS, NULL)
       IN /\ mem' = s.m
          /\ ub' = ub \cup s.ev
    /\ pc' = "d_freehdr"
    /\ UNCHANGED << freed, freeLog, nextId, req, callerVars, keyVars, failKind, mainVars, createVars, destroyVars >>

\* lines 149-150: free(instance); instance = NULL (the parameter, a local copy)
D_FreeHdr ==
    /\ pc = "d_freehdr"
    /\ \E f \in FreeOut(mem, freed, freeLog, instance) :
          /\ mem' = f.m
          /\ freed' = f.fr
          /\ freeLog' = f.log
          /\ ub' = ub \cup f.ev
    /\ instance' = NULL
    /\ pc' = "d_out"
    /\ UNCHANGED << nextId, req, callerVars, keyVars, failKind, mainVars, createVars, d_port, d_pin, ret, retTo >>

\* lines 152-153: return to create's rollback (lines 91, 102: result dropped)
D_OutToCreate ==
    /\ pc = "d_out"
    /\ retTo = "create"
    /\ pc' = "c_rollback"
    /\ UNCHANGED << heapVars, ub, req, callerVars, keyVars, failKind, mainVars, createVars, destroyVars >>

\* lines 152-153 and 54: return to main; destroy_ret = the value returned
D_OutToMain ==
    /\ pc = "d_out"
    /\ retTo \in {"main", "caller"}
    /\ destroy_ret' = DestroyResult(ret)
    /\ pc' = IF retTo = "main" THEN "main_loop" ELSE "main_end"
    /\ UNCHANGED << heapVars, ub, req, callerVars, keyVars, failKind, my_pins, calls, writes, lastW,
                    extra, arg, createVars, destroyVars >>

\* undefined behaviour has happened: the run may stop at any later point
Fault ==
    /\ pc \notin {"fault", "main_end"}
    /\ ub \cap Fatal # {}
    /\ pc' = "fault"
    /\ UNCHANGED << heapVars, ub, req, callerVars, keyVars, failKind, mainVars, createVars, destroyVars >>

\* ---------------------------------------------------------------------
\* main and the caller
\* ---------------------------------------------------------------------

Ports == 0..(MAX_PORTS - 1)
Funcs == 0..(MAX_FUNC - 1)
Cmds == {GPIO_OFF, GPIO_ON}

\* a further read, of slot i of the block of kind k that the value read in
\* each outcome of S points to; the events add up
Deref(S, k, i) ==
    UNION { { [v |-> x.v, m |-> x.m, ev |-> a.ev \cup x.ev] :
                 x \in Load(a.m, a.v, k, i) } : a \in S }

\* the reads of h->pins[port][pin], the address of the cell array
CellArray(m, h, port, pin) ==
    Deref(Deref(Load(m, h, "hdr", F_PINS), "ports", port + 1), "pinarr", pin + 1)

\* WriteCell with the function index dropped: every store goes to [GPIO_OUT]
WriteCellFirstFunc(m, h, port, pin, func, v) ==
    { LET s == StoreOut(c.m, c.v, "func", 1, v)
      IN [m |-> s.m, ev |-> c.ev \cup s.ev] : c \in CellArray(m, h, port, pin) }

\* the store my_pins->pins[port][pin][func] = v of lines 48-50: the set of
\* outcomes [m, ev]
WriteCell(m, h, port, pin, func, v) ==
    { LET s == StoreOut(c.m, c.v, "func", func + 1, v)
      IN [m |-> s.m, ev |-> c.ev \cup s.ev] : c \in CellArray(m, h, port, pin) }

\* the values a read of my_pins->pins[port][pin][func] may return
ReadCell(m, h, port, pin, func) ==
    { d.v : d \in Deref(CellArray(m, h, port, pin), "func", func + 1) }

\* line 46: if (my_pins != NULL)
Main_Check ==
    /\ pc = "main_check"
    /\ pc' = IF my_pins # NULL THEN "main_use" ELSE "main_end"
    /\ UNCHANGED << heapVars, ub, req, callerVars, keyVars, failKind, mainVars, createVars, destroyVars >>

\* lines 48-50: a cell write on the live instance (the writes inside the
\* matrix and the access outside it are followed in separate runs)
Main_Write ==
    /\ pc = "main_use"
    /\ calls = 0
    /\ ~oor
    /\ writes < MaxWrites
    /\ \E port \in Ports, pin \in 0..(mem[my_pins].slots[F_NUM] - 1),
          func \in Funcs, v \in Cmds :
          \E w \in WriteCell(mem, my_pins, port, pin, func, v) :
             /\ mem' = w.m
             /\ ub' = ub \cup w.ev
             /\ lastW' = << port, pin, func, v >>
    /\ writes' = writes + 1
    /\ UNCHANGED << pc, freed, freeLog, nextId, req, callerVars, keyVars, failKind, my_pins, destroy_ret,
                    calls, extra, arg, createVars, destroyVars >>

\* a cell access my_pins->pins[port][pin][func] as in lines 48-50, a store
\* or a read, with pin >= num_of_pins, made on the instance as create
\* returned it: nothing checks the index
Main_AccessOutOfRange ==
    /\ pc = "main_use"
    /\ calls = 0
    /\ writes = 0
    /\ ~oor
    /\ \E port \in Ports, pin \in (mem[my_pins].slots[F_NUM])..MaxPins, func \in Funcs :
          \/ \E v \in Cmds : \E w \in WriteCell(mem, my_pins, port, pin, func, v) :
                /\ mem' = w.m
                /\ ub' = ub \cup w.ev
          \/ \E d \in Deref(CellArray(mem, my_pins, port, pin), "func", func + 1) :
                /\ mem' = d.m
                /\ ub' = ub \cup d.ev
    /\ oor' = TRUE
    /\ UNCHANGED << attempt, base, keyVars, pc, freed, freeLog, nextId, req, failKind, mainVars,
                    createVars, destroyVars >>

\* line 54: destroy_ret = PINS_destroyInstance(my_pins), the call.  No cell
\* write follows it (lines 52-55), so the history of the writes ends here.
Main_CallDestroy ==
    /\ pc = "main_use"
    /\ instance' = my_pins
    /\ arg' = my_pins
    /\ retTo' = "main"
    /\ ret' = SUCCESS
    /\ calls' = calls + 1
    /\ pc' = "d_entry"
    /\ writes' = 0
    /\ lastW' = << >>
    /\ UNCHANGED << heapVars, ub, req, callerVars, keyVars, failKind, my_pins, destroy_ret,
                    extra, createVars, d_port, d_pin >>

\* line 55: while (destroy_ret != SUCCESS)
Main_Loop ==
    /\ pc = "main_loop"
    /\ pc' = IF destroy_ret # SUCCESS THEN "main_use" ELSE "main_end"
    /\ UNCHANGED << heapVars, ub, req, callerVars, keyVars, failKind, mainVars, createVars, destroyVars >>

\* a caller's further call of PINS_destroyInstance, on the handle it holds
\* or on NULL
Caller_Destroy ==
    /\ pc = "main_end"
    /\ extra < MaxExtraCalls
    /\ \E h \in {my_pins, NULL} :
          /\ instance' = h
          /\ arg' = h
          /\ calls' = IF h # NULL THEN calls + 1 ELSE calls
    /\ retTo' = "caller"
    /\ ret' = SUCCESS
    /\ extra' = extra + 1
    /\ pc' = "d_entry"
    /\ UNCHANGED << heapVars, ub, req, callerVars, keyVars, failKind, my_pins, destroy_ret, writes, lastW,
                    createVars, d_port, d_pin >>

\* a caller's fresh call of PINS_createInstance after a call that failed:
\* create's locals start anew (lines 64-67), destroy's frame is gone
Caller_Retry ==
    /\ pc = "main_end"
    /\ my_pins = NULL
    /\ failKind # "none"
    /\ attempt < MaxAttempts
    /\ attempt' = attempt + 1
    /\ base' = nextId
    /\ failKind' = "none"
    /\ pins_matrix' = NULL
    /\ c_pin' = 0
    /\ c_func' = 0
    /\ instance' = NULL
    /\ d_port' = 0
    /\ d_pin' = 0
    /\ ret' = SUCCESS
    /\ retTo' = "none"
    /\ pc' = "c_hdr"
    /\ UNCHANGED << heapVars, ub, req, oor, keyVars, mainVars >>

Next ==
    \/ Main_CallCreate
    \/ C_HdrFail
    \/ C_HdrOk
    \/ C_PortsFail
    \/ C_PortsOk
    \/ C_PinLevelFail
    \/ C_PinLevelOk
    \/ C_PortLoopEnd
    \/ C_FuncLevelFail
    \/ C_FuncLevelOk
    \/ C_FuncLoopEnd
    \/ C_Rollback
    \/ C_Out
    \/ D_EntryNull
    \/ D_ChkPins
    \/ D_PortLoop
    \/ D_PortLoopEnd
    \/ D_PinLoop
    \/ D_PinNull
    \/ D_FreePin
    \/ D_PortNull
    \/ D_FreePorts
    \/ D_PinsNull
    \/ D_FreeHdr
    \/ D_OutToCreate
    \/ D_OutToMain
    \/ Fault
    \/ Main_Check
    \/ Main_Write
    \/ Main_AccessOutOfRange
    \/ Main_CallDestroy
    \/ Main_Loop
    \/ Caller_Destroy
    \/ Caller_Retry

Spec == Init /\ [][Next]_vars

\* ---------------------------------------------------------------------
\* Properties
\* ---------------------------------------------------------------------

\* the number of blocks of a complete instance of n pins per port
BlocksOf(n) == 2 + MAX_PORTS + MAX_PORTS * n

\* the blocks a handle h reaches through pointers that are live blocks
PortsOf(m, h) ==
    IF h \in DOMAIN m /\ m[h].kind = "hdr" THEN {m[h].slots[F_PINS]} \cap DOMAIN m ELSE {}
PinArraysOf(m, h) ==
    UNION { { m[b].slots[i] : i \in 1..Len(m[b].slots) } \cap DOMAIN m : b \in PortsOf(m, h) }
CellArraysOf(m, h) ==
    UNION { { m[b].slots[i] : i \in 1..Len(m[b].slots) } \cap DOMAIN m : b \in PinArraysOf(m, h) }
Reach(m, h) ==
    ({h} \cap DOMAIN m) \cup PortsOf(m, h) \cup PinArraysOf(m, h) \cup CellArraysOf(m, h)

\* h is a handle to a complete instance of n pins per port: header, port
\* level, 4 pin-level arrays of n slots and 4*n distinct cell arrays, all live
FullyBuilt(m, h, n) ==
    /\ h \in DOMAIN m
    /\ m[h].kind = "hdr"
    /\ m[h].slots[F_NUM] = n
    /\ m[h].slots[F_PINS] \in DOMAIN m
    /\ m[m[h].slots[F_PINS]].kind = "ports"
    /\ \A port \in 1..MAX_PORTS :
          LET pa == m[m[h].slots[F_PINS]].slots[port]
          IN /\ pa \in DOMAIN m
             /\ m[pa].kind = "pinarr"
             /\ Len(m[pa].slots) = n
             /\ \A pin \in 1..n :
                   /\ m[pa].slots[pin] \in DOMAIN m
                   /\ m[m[pa].slots[pin]].kind = "func"
                   /\ Len(m[m[pa].slots[pin]].slots) = MAX_FUNC
    /\ Cardinality(Reach(m, h)) = BlocksOf(n)

\* the content of the storage of cell (port, pin, func) of a complete instance
RawCell(m, h, port, pin, func) ==
    m[m[m[m[h].slots[F_PINS]].slots[port + 1]].slots[pin + 1]].slots[func + 1]

CreateReturned == pc = "main_check"
Injected == failKind \in {"hdr", "ports", "pin", "func"}

\* C1: for pinCount > 0, when a create call in which one allocation failed
\* returns, no block is outstanding and no handle is returned.
C1_FailedCreateLeavesNothing ==
    (CreateReturned /\ req > 0 /\ Injected) => (DOMAIN mem = {} /\ my_pins = NULL)

\* C2: the destroy that create's rollback runs never reads a slot create has
\* not written, and so runs without any undefined access or free.
C2_RollbackTouchesOnlyWrittenSlots ==
    (retTo = "create" /\ req > 0) => ub = {}

\* C3: the value create returns is NULL or a handle to a complete, live
\* instance, whatever allocation failed.
C3_ReturnsNullOrComplete ==
    CreateReturned => (my_pins = NULL \/ FullyBuilt(mem, my_pins, req))

C3_Witness ==
    /\ CreateReturned
    /\ req = 2
    /\ my_pins # NULL
    /\ FullyBuilt(mem, my_pins, req)

\* C4: for pinCount > 0, create followed by destroy frees each of the
\* 2 + 4 + 4*pinCount blocks exactly once, leaves no block outstanding and
\* returns SUCCESS.  The instance is live: the caller made no access outside
\* the matrix before the destroy.
C4_DestroyFreesEachBlockOnce ==
    (pc = "main_loop" /\ req > 0 /\ ~oor) =>
        /\ DOMAIN mem = {}
        /\ Len(freeLog) = BlocksOf(req)
        /\ { freeLog[i] : i \in 1..Len(freeLog) } = 1..BlocksOf(req)
        /\ freed = 1..BlocksOf(req)
        /\ ub = {}
        /\ destroy_ret = SUCCESS

C4_Witness ==
    /\ pc = "main_loop"
    /\ ~oor
    /\ req = 2
    /\ Len(freeLog) = 14
    /\ DOMAIN mem = {}

\* a call of destroy made after main's loop has returned
ExtraCallReturned == pc = "main_end" /\ extra > 0

\* C5: destroy called with NULL returns an InvalidArgument status, never
\* SUCCESS, and frees nothing.
C5_NullHandleRejected ==
    (ExtraCallReturned /\ arg = NULL) => (destroy_ret = -EINVAL /\ destroy_ret # SUCCESS)

\* C6: a second destroy on the same handle frees no block again and reads
\* no storage the first call released.
C6_SecondDestroyIsNoOp ==
    (calls >= 2) => (ub \cap {"use_after_free", "double_free"} = {})

\* C7: right after a successful create every cell reads as GPIO_OFF.
C7_CellsStartOff ==
    (CreateReturned /\ my_pins # NULL) =>
        \A port \in Ports, pin \in 0..(req - 1), func \in Funcs :
            ReadCell(mem, my_pins, port, pin, func) = {GPIO_OFF}

\* C8: create called with pinCount = 0 returns no handle and leaves no
\* allocation outstanding.
C8_ZeroPinsRejected ==
    (CreateReturned /\ req = 0) => (my_pins = NULL /\ DOMAIN mem = {})

\* C9: a cell write changes the addressed cell to the value written and
\* leaves every other cell and num_of_pins as they were.
C9_WriteChangesOnlyItsCell ==
    [][ (writes' = writes + 1) =>
          /\ ReadCell(mem', my_pins, lastW'[1], lastW'[2], lastW'[3]) = {lastW'[4]}
          /\ \A port \in Ports, pin \in 0..(req - 1), func \in Funcs :
                << port, pin, func >> # << lastW'[1], lastW'[2], lastW'[3] >> =>
                   RawCell(mem', my_pins, port, pin, func) =
                      RawCell(mem, my_pins, port, pin, func)
          /\ mem'[my_pins].slots[F_NUM] = mem[my_pins].slots[F_NUM]
          /\ FullyBuilt(mem', my_pins, req)
      ]_vars

\* a second write has replaced the value a first write left in the same cell
C9_Witness ==
    /\ pc = "main_use"
    /\ writes = 2
    /\ lastW = << 1, 1, 2, GPIO_ON >>
    /\ RawCell(mem, my_pins, 1, 1, 2) = GPIO_ON
    /\ RawCell(mem, my_pins, 0, 0, 0) = GPIO_OFF

\* C10: after destroy returns for a live instance, the caller's handle is
\* cleared: it does not point to freed storage.
C10_HandleClearedAfterDestroy ==
    (pc = "main_loop") => (my_pins = NULL /\ my_pins \notin freed)

\* C11: a cell read or write with pin >= num_of_pins touches no storage
\* outside the cells of the instance (it is refused as out of range).
C11_OutOfRangeAccessIsContained ==
    oor => (ub \cap Fatal = {})

\* the retry of a create of at least one pin is running, or was stopped
\* while it ran
InRetry == attempt = 2 /\ my_pins = NULL /\ req > 0

\* C12: after a create call that failed and rolled back, a fresh create call
\* in which no allocation fails is not disturbed by the failed one: it runs
\* to its return, and returns a complete instance made of new blocks only.
C12_RetryAfterFailureSucceeds ==
    /\ InRetry => pc # "fault"
    /\ (InRetry /\ pc = "c_out") =>
          /\ FullyBuilt(mem, pins_matrix, req)
          /\ \A b \in Reach(mem, pins_matrix) : b >= base /\ b \notin freed

PointsTo(m, b) ==
    IF m[b].kind = "hdr" THEN {m[b].slots[F_PINS]}
    ELSE IF m[b].kind \in {"ports", "pinarr"}
    THEN {m[b].slots[i] : i \in 1..Len(m[b].slots)}
    ELSE {}

\* main's call of destroy on the instance create returned is running
DestroyOfLive == retTo = "main" /\ calls = 1 /\ pc \notin {"main_loop", "main_end", "fault"}

\* C15: destroy of a live instance releases bottom-up: a step frees at most
\* one block, and no block is freed while a block it points to is still
\* allocated, so function-level blocks go before their pin-level block,
\* pin-level blocks before the port-level block, and that before the header.
C15_ReleasesBottomUp ==
    [][DestroyOfLive =>
         /\ Cardinality(DOMAIN mem \ DOMAIN mem') <= 1
         /\ \A b \in DOMAIN mem \ DOMAIN mem' :
               PointsTo(mem, b) \cap DOMAIN mem = {}]_vars

\* main's destroy of a two-pin instance has released the blocks of ports 0
\* and 1 and still holds those of ports 2 and 3
C15_Witness ==
    /\ pc = "d_portloop"
    /\ retTo = "main"
    /\ calls = 1
    /\ req = 2
    /\ d_port = 2
    /\ Len(freeLog) = 6
    /\ Cardinality(DOMAIN mem) = BlocksOf(2) - 6
    /\ ub = {}

\* C16: main's do-while around destroy ends after exactly one call: the
\* loop test always sees SUCCESS, main enters destroy once and with a handle
\* that is still allocated, and leaves the loop having made one call.
C16_DestroyLoopRunsOnce ==
    /\ (pc = "main_loop") => (destroy_ret = SUCCESS /\ calls = 1)
    /\ (pc = "d_entry" /\ retTo = "main") =>
          (calls = 1 /\ instance = my_pins /\ instance \in DOMAIN mem)
    /\ (pc = "main_end" /\ retTo = "main") => calls = 1

\* main has left the loop after destroying a two-pin instance
C16_Witness ==
    /\ pc = "main_end"
    /\ retTo = "main"
    /\ calls = 1
    /\ destroy_ret = SUCCESS
    /\ req = 2
    /\ Cardinality(freed) = BlocksOf(2)

\* ---------------------------------------------------------------------
\* GPIOS_EXAMPLES/OddOrEvenOnLed: main loop and checkKeyConditions
\* ---------------------------------------------------------------------

Byte == 256
KEYS_MASK == 7
LEDS_MASK == 3
MAX_KEY_CONDITIONS == 2
EVEN_KEY_PRESSED == 0
ODD_KEY_PRESSED == 1

\* user_output[EVEN_KEY_PRESSED] = 0b01, user_output[ODD_KEY_PRESSED] = 0b10
user_output == [c \in 0..(MAX_KEY_CONDITIONS - 1) |->
                   IF c = EVEN_KEY_PRESSED THEN 1 ELSE 2]

\* a & b on unsigned values
RECURSIVE BitAnd(_, _)
BitAnd(a, b) ==
    IF a = 0 \/ b = 0 THEN 0
    ELSE (a % 2) * (b % 2) + 2 * BitAnd(a \div 2, b \div 2)

\* the gpio_std program is a separate program: not running
PinsIdle ==
    /\ pc = "off"
    /\ mem = << >>
    /\ freed = {}
    /\ freeLog = << >>
    /\ nextId = 1
    /\ ub = {}
    /\ req = 0
    /\ failKind = "none"
    /\ my_pins = NULL
    /\ destroy_ret = 0
    /\ pins_matrix = NULL
    /\ c_pin = 0
    /\ c_func = 0
    /\ instance = NULL
    /\ d_port = 0
    /\ d_pin = 0
    /\ ret = SUCCESS
    /\ retTo = "none"
    /\ calls = 0
    /\ writes = 0
    /\ lastW = << >>
    /\ extra = 0
    /\ arg = NULL
    /\ oor = FALSE
    /\ attempt = 1
    /\ base = 1

pinsVars == << pc, heapVars, ub, req, failKind, mainVars, createVars, destroyVars,
               callerVars >>

\* lines 76-80: main's locals; the peripheral registers after reset
KeyInit ==
    /\ PinsIdle
    /\ kpc = "k_main"
    /\ odr = 0
    /\ user_input = 0
    /\ condition_check = 0
    /\ binary_number = 0
    /\ counter = 0
    /\ k_ret = 0
    /\ k_arg = 0
    /\ direct = FALSE

\* lines 128-130: break_condition stays 0; user_input = GPIOB->IDR & KEYS_MASK,
\* idr being the low byte of the input register
K_ReadKeys ==
    /\ kpc = "k_main"
    /\ \E idr \in 0..(Byte - 1) : user_input' = BitAnd(idr, KEYS_MASK)
    /\ kpc' = "k_call"
    /\ UNCHANGED << pinsVars, odr, condition_check, binary_number, counter, k_ret,
                    k_arg, direct >>

\* lines 132, 167-171: checkKeyConditions(user_input) is entered; counter = 0
K_Call ==
    /\ kpc = "k_call"
    /\ binary_number' = user_input
    /\ k_arg' = user_input
    /\ direct' = FALSE
    /\ counter' = 0
    /\ kpc' = "k_while"
    /\ UNCHANGED << pinsVars, odr, user_input, condition_check, k_ret >>

\* lines 167-171: checkKeyConditions entered with any uint8_t argument
K_DirectCall ==
    /\ kpc = "k_main"
    /\ \E x \in 0..(Byte - 1) :
          /\ binary_number' = x
          /\ k_arg' = x
    /\ direct' = TRUE
    /\ counter' = 0
    /\ kpc' = "k_while"
    /\ UNCHANGED << pinsVars, odr, user_input, condition_check, k_ret >>

\* lines 173-177: counter += number & 1u; binary_number >>= 1u
\* (number, undeclared in the source, is the parameter binary_number)
K_While ==
    /\ kpc = "k_while"
    /\ binary_number # 0
    /\ counter' = (counter + BitAnd(binary_number, 1)) % Byte
    /\ binary_number' = binary_number \div 2
    /\ UNCHANGED << pinsVars, kpc, odr, user_input, condition_check, k_ret,
                    k_arg, direct >>

\* line 179: ret = ((counter % 2u) == 0u || counter == 0u) ? ODD_BINARY : EVEN_BINARY
\* (ODD_BINARY and EVEN_BINARY, undeclared in the source, are the
\* enumerators ODD_KEY_PRESSED and EVEN_KEY_PRESSED)
KeyCondition(c) ==
    IF (c % 2) = 0 \/ c = 0 THEN ODD_KEY_PRESSED ELSE EVEN_KEY_PRESSED

\* lines 173 and 179: the loop ends; ret is chosen
K_Select ==
    /\ kpc = "k_while"
    /\ binary_number = 0
    /\ k_ret' = KeyCondition(counter)
    /\ kpc' = "k_return"
    /\ UNCHANGED << pinsVars, odr, user_input, condition_check, binary_number,
                    counter, k_arg, direct >>

\* lines 182 and 132: return ret; condition_check = the value returned.
\* The function's frame is gone and the history of the call ends.
K_Return ==
    /\ kpc = "k_return"
    /\ condition_check' = k_ret
    /\ kpc' = IF direct THEN "k_main" ELSE "k_leds"
    /\ binary_number' = 0
    /\ counter' = 0
    /\ k_ret' = 0
    /\ k_arg' = 0
    /\ direct' = FALSE
    /\ UNCHANGED << pinsVars, odr, user_input >>

\* line 134: GPIOC->ODR = user_output[condition_check] & LEDS_MASK
K_WriteLeds ==
    /\ kpc = "k_leds"
    /\ odr' = BitAnd(user_output[condition_check], LEDS_MASK)
    /\ kpc' = "k_loop"
    /\ UNCHANGED << pinsVars, user_input, condition_check, binary_number,
                    counter, k_ret, k_arg, direct >>

\* line 128: while (!(break_condition)), which is never set
K_LoopBack ==
    /\ kpc = "k_loop"
    /\ kpc' = "k_main"
    /\ UNCHANGED << pinsVars, odr, user_input, condition_check, binary_number,
                    counter, k_ret, k_arg, direct >>

KeyNext ==
    \/ K_ReadKeys
    \/ K_Call
    \/ K_DirectCall
    \/ K_While
    \/ K_Select
    \/ K_Return
    \/ K_WriteLeds
    \/ K_LoopBack

KeySpec == KeyInit /\ [][KeyNext]_vars

\* the number of 1 bits of x
RECURSIVE Ones(_)
Ones(x) == IF x = 0 THEN 0 ELSE (x % 2) + Ones(x \div 2)

\* C14: for every 8-bit input checkKeyConditions returns EVEN_KEY_PRESSED
\* when the number of 1 bits is even or zero and ODD_KEY_PRESSED when it is
\* odd, and the main loop writes LED pattern 0b01 for an even count of
\* pressed keys and 0b10 for an odd count.
C14_ParitySelectsLed ==
    /\ (kpc = "k_return") =>
          k_ret = IF Ones(k_arg) % 2 = 0 THEN EVEN_KEY_PRESSED ELSE ODD_KEY_PRESSED
    /\ (kpc = "k_loop") =>
          odr = IF Ones(user_input) % 2 = 0 THEN 1 ELSE 2

====
